---- MODULE Spec2Model ----
(***************************************************************************)
(* A model of the Datum date-only value type (snd/datum).                  *)
(*                                                                         *)
(* The library is a set of pure methods over an immutable (year, month,    *)
(* day) triple.  The model is a single caller that invokes one method at a *)
(* time: a Call* action binds the receiver and the arguments, the methods  *)
(* that loop (addDays, subtractDays, deltaDays, and weekday through        *)
(* deltaDays) advance one loop iteration per step, and the call ends with  *)
(* `ret` holding the returned value or the thrown error.                   *)
(*                                                                         *)
(* A JavaScript number is modelled as [int |-> BOOLEAN, v |-> Int]: `int`  *)
(* is what Number.isInteger answers, `v` the value when it is an integer.  *)
(* A string is a sequence of one-character strings.  A call that throws    *)
(* yields [throw |-> kind], a call that returns yields [val |-> value].    *)
(*                                                                         *)
(* README.md carries the current text of the class, subtractDays and the   *)
(* RangeError/TypeError kinds included; datum.ts is an earlier copy that   *)
(* lacks subtractDays and throws through assert().  Where the two differ   *)
(* the model follows README.md.                                            *)
(***************************************************************************)
EXTENDS Integers, Sequences, FiniteSets, TLC

VARIABLES
    pc,              \* "idle", "addDays", "subtractDays", "deltaDays", "done"
    op,              \* the method being called ("none" when idle)
    self,            \* <<this>> for an instance method, <<>> for a static one
    arg,             \* the call's arguments, a record
    current,         \* <<current>> inside a loop, <<>> outside
    until,           \* <<until>> inside deltaDays, <<>> outside
    daysToAdd,       \* addDays' running counter
    daysToSubtract,  \* subtractDays' running counter
    deltaAcc,        \* deltaDays' accumulator (the local `deltaDays`)
    ret              \* <<>> while running, <<result>> when done

vars == <<pc, op, self, arg, current, until, daysToAdd, daysToSubtract, deltaAcc, ret>>

---------------------------------------------------------------------------
(* Values *)

Num(v) == [int |-> TRUE, v |-> v]
\* a number for which Number.isInteger is false (a fraction, NaN, Infinity)
NonInteger == [int |-> FALSE, v |-> 0]

Return(v) == [val |-> v]
Throw(kind) == [throw |-> kind]
IsThrow(r) == "throw" \in DOMAIN r
Undefined == "undefined"

---------------------------------------------------------------------------
(* Validation: assertIsYear, assertIsMonth, assertIsDay *)

assertIsYear(year) ==
    IF ~year.int THEN Throw("TypeError")
    ELSE IF 0 > year.v \/ year.v > 9999 THEN Throw("TypeError")
    ELSE Return(Undefined)

\* assertIsMonth with the lower bound at 0
assertIsMonthFromZero(month) ==
    IF ~month.int THEN Throw("TypeError")
    ELSE IF 0 > month.v \/ month.v > 12 THEN Throw("TypeError")
    ELSE Return(Undefined)

assertIsMonth(month) ==
    IF ~month.int THEN Throw("TypeError")
    ELSE IF 1 > month.v \/ month.v > 12 THEN Throw("TypeError")
    ELSE Return(Undefined)

assertIsDay(day) ==
    IF ~day.int THEN Throw("TypeError")
    ELSE IF 1 > day.v \/ day.v > 31 THEN Throw("TypeError")
    ELSE Return(Undefined)

---------------------------------------------------------------------------
(* Calendar tables: isLeapYear, getDaysInMonth, getDaysInYear *)

isLeapYearMissing400(year) ==
    LET a == assertIsYear(year) IN
    IF IsThrow(a) THEN a
    ELSE Return(year.v % 4 = 0 /\ year.v % 100 # 0)

isLeapYear(year) ==
    LET a == assertIsYear(year) IN
    IF IsThrow(a) THEN a
    ELSE Return((year.v % 4 = 0 /\ year.v % 100 # 0) \/ year.v % 400 = 0)

getDaysInMonth(year, month) ==
    LET a == assertIsYear(year)
        b == assertIsMonth(month)
    IN  IF IsThrow(a) THEN a
        ELSE IF IsThrow(b) THEN b
        ELSE Return(<<0, 31, (IF isLeapYear(year).val THEN 29 ELSE 28), 31, 30, 31,
                      30, 31, 31, 30, 31, 30, 31>>[month.v + 1])

getDaysInYear(year) ==
    LET a == assertIsYear(year) IN
    IF IsThrow(a) THEN a
    ELSE Return(IF isLeapYear(year).val THEN 366 ELSE 365)

---------------------------------------------------------------------------
(* The constructor *)

DatumNoMonthLengthCheck(year, month, day) ==
    LET a == assertIsYear(year)
        b == assertIsMonth(month)
        c == assertIsDay(day)
    IN  IF IsThrow(a) THEN a
        ELSE IF IsThrow(b) THEN b
        ELSE IF IsThrow(c) THEN c
        ELSE Return([year |-> year.v, month |-> month.v, day |-> day.v])

DatumClampsDay(year, month, day) ==
    LET a == assertIsYear(year)
        b == assertIsMonth(month)
        c == assertIsDay(day)
    IN  IF IsThrow(a) THEN a
        ELSE IF IsThrow(b) THEN b
        ELSE IF IsThrow(c) THEN c
        ELSE LET daysInMonth == getDaysInMonth(year, month).val IN
             Return([year |-> year.v, month |-> month.v,
                     day |-> IF day.v > daysInMonth THEN daysInMonth ELSE day.v])

\* new Datum(year, month, day)
Datum(year, month, day) ==
    LET a == assertIsYear(year)
        b == assertIsMonth(month)
        c == assertIsDay(day)
    IN  IF IsThrow(a) THEN a
        ELSE IF IsThrow(b) THEN b
        ELSE IF IsThrow(c) THEN c
        ELSE LET daysInMonth == getDaysInMonth(year, month) IN
             IF IsThrow(daysInMonth) THEN daysInMonth
             ELSE IF day.v > daysInMonth.val THEN Throw("RangeError")
             ELSE Return([year |-> year.v, month |-> month.v, day |-> day.v])

---------------------------------------------------------------------------
(* String conversion: toString, fromString, padWithLeadingZeros *)

STRING_LENGTH == 10

DigitChars == <<"0", "1", "2", "3", "4", "5", "6", "7", "8", "9">>
IsDigit(c) == \E i \in 1..10 : DigitChars[i] = c
DigitValue(c) == (CHOOSE i \in 1..10 : DigitChars[i] = c) - 1

\* Number.prototype.toString() of a non-negative integer: its decimal digits
RECURSIVE numberToString(_)
numberToString(n) ==
    IF n < 10 THEN <<DigitChars[n + 1]>>
    ELSE numberToString(n \div 10) \o <<DigitChars[(n % 10) + 1]>>

\* parseInt(str, 10) of a string of decimal digits
RECURSIVE parseInt(_)
parseInt(str) ==
    IF Len(str) = 0 THEN 0
    ELSE 10 * parseInt(SubSeq(str, 1, Len(str) - 1)) + DigitValue(str[Len(str)])

RECURSIVE padWithLeadingZeros(_, _)
padWithLeadingZeros(str, targetLength) ==
    IF Len(str) < targetLength THEN padWithLeadingZeros(<<"0">> \o str, targetLength)
    ELSE str

toStringNoPadding(this) ==
    numberToString(this.year) \o <<"-">> \o numberToString(this.month)
        \o <<"-">> \o numberToString(this.day)

toString(this) ==
    LET yearStr == padWithLeadingZeros(numberToString(this.year), 4)
        monthStr == padWithLeadingZeros(numberToString(this.month), 2)
        dayStr == padWithLeadingZeros(numberToString(this.day), 2)
    IN  yearStr \o <<"-">> \o monthStr \o <<"-">> \o dayStr

\* a pattern that takes any character where REGEX wants a dash
matchREGEXAnySeparator(str) ==
    IF /\ Len(str) = 10
       /\ \A i \in {1, 2, 3, 4, 6, 7, 9, 10} : IsDigit(str[i])
    THEN <<SubSeq(str, 1, 4), SubSeq(str, 6, 7), SubSeq(str, 9, 10)>>
    ELSE <<>>

\* str.match(/^(\d{4})\-(\d\d)\-(\d\d)$/): the three groups, or <<>> for null
matchREGEX(str) ==
    IF /\ Len(str) = 10
       /\ \A i \in {1, 2, 3, 4, 6, 7, 9, 10} : IsDigit(str[i])
       /\ str[5] = "-"
       /\ str[8] = "-"
    THEN <<SubSeq(str, 1, 4), SubSeq(str, 6, 7), SubSeq(str, 9, 10)>>
    ELSE <<>>

fromString(str) ==
    IF Len(str) # STRING_LENGTH THEN Throw("RangeError")
    ELSE LET match == matchREGEX(str) IN
         IF match = <<>> THEN Throw("RangeError")
         ELSE Datum(Num(parseInt(match[1])), Num(parseInt(match[2])),
                    Num(parseInt(match[3])))

\* A host Date is [valid, year, month (0-indexed), date]; the getters of an
\* invalid Date answer NaN.
fromDate(date) ==
    IF ~date.valid THEN Datum(NonInteger, NonInteger, NonInteger)
    ELSE Datum(Num(date.year), Num(date.month + 1), Num(date.date))

toTuple(this) == <<this.year, this.month, this.day>>

fromTuple(tuple) == Datum(tuple[1], tuple[2], tuple[3])

---------------------------------------------------------------------------
(* Comparison *)

isEqual(this, other) ==
    this.year = other.year /\ this.month = other.month /\ this.day = other.day

\* isBefore with the day test left unguarded by the year and the month
isBeforeDayUnguarded(this, other) ==
    \/ this.year < other.year
    \/ (this.year = other.year /\ this.month < other.month)
    \/ this.day < other.day

isBefore(this, other) ==
    \/ this.year < other.year
    \/ (this.year = other.year /\ this.month < other.month)
    \/ (this.year = other.year /\ this.month = other.month /\ this.day < other.day)

isAfter(this, other) ==
    \/ this.year > other.year
    \/ (this.year = other.year /\ this.month > other.month)
    \/ (this.year = other.year /\ this.month = other.month /\ this.day > other.day)

\* `null`, what min and max answer for an empty Iterable
Null == [null |-> TRUE]

\* one pass of min's `for (const datum of datums)` body; `least` is the local `min`
minIterationKeepsFirst(least, datum) ==
    IF least = Null THEN datum ELSE least

minIteration(least, datum) ==
    IF least = Null \/ isBefore(datum, least) THEN datum ELSE least

RECURSIVE minLoop(_, _)
minLoop(least, datums) ==
    IF datums = <<>> THEN least
    ELSE minLoop(minIteration(least, Head(datums)), Tail(datums))

min(datums) == minLoop(Null, datums)

\* one pass of max's `for (const datum of datums)` body; `greatest` is the local `max`
maxIteration(greatest, datum) ==
    IF greatest = Null \/ isAfter(datum, greatest) THEN datum ELSE greatest

RECURSIVE maxLoop(_, _)
maxLoop(greatest, datums) ==
    IF datums = <<>> THEN greatest
    ELSE maxLoop(maxIteration(greatest, Head(datums)), Tail(datums))

max(datums) == maxLoop(Null, datums)

compareAsc(first, second) ==
    IF isBefore(first, second) THEN -1
    ELSE IF isAfter(first, second) THEN 1
    ELSE 0

\* compareDesc answering what compareAsc answers
compareDescNotNegated(first, second) ==
    IF isBefore(first, second) THEN -1
    ELSE IF isAfter(first, second) THEN 1
    ELSE 0

compareDesc(first, second) ==
    IF isBefore(first, second) THEN 1
    ELSE IF isAfter(first, second) THEN -1
    ELSE 0

\* the comparator handed to Array.prototype.sort, by name
compareFn(name, a, b) ==
    IF name = "compareAsc" THEN compareAsc(a, b) ELSE compareDesc(a, b)

\* `dates.sort(compareFn)`: the host chooses the algorithm, so the array ends
\* as any arrangement of its elements in which no element is followed by one
\* the comparator places before it
sort(dates, name) ==
    {p \in {[i \in 1..Len(dates) |-> dates[f[i]]] : f \in Permutations(1..Len(dates))} :
        \A i \in 1..Len(dates), j \in 1..Len(dates) :
            i < j => compareFn(name, p[i], p[j]) <= 0}

---------------------------------------------------------------------------
(* Day-count arithmetic.  Each *Iteration operator is one pass through the  *)
(* method's `while (true)` body: it answers either the call's result        *)
(* ([done |-> TRUE, ret |-> ...]) or the locals for the next pass.          *)

daysUntilFirstDayOfNextMonthNoPlusOne(this) ==
    LET daysInMonth == getDaysInMonth(Num(this.year), Num(this.month)) IN
    IF IsThrow(daysInMonth) THEN daysInMonth
    ELSE Return(daysInMonth.val - this.day)

daysUntilFirstDayOfNextMonth(this) ==
    LET daysInMonth == getDaysInMonth(Num(this.year), Num(this.month)) IN
    IF IsThrow(daysInMonth) THEN daysInMonth
    ELSE Return(daysInMonth.val - this.day + 1)

\* the move out of December wrapping from year 9999 to year 0
firstDayOfNextMonthWrapsYear(cur) ==
    IF cur.month = 12 THEN Datum(Num((cur.year + 1) % 10000), Num(1), Num(1))
    ELSE Datum(Num(cur.year), Num(cur.month + 1), Num(1))

\* "move to first day of next month"
firstDayOfNextMonth(cur) ==
    IF cur.month = 12 THEN Datum(Num(cur.year + 1), Num(1), Num(1))
    ELSE Datum(Num(cur.year), Num(cur.month + 1), Num(1))

addDaysIterationOffByOne(cur, toAdd) ==
    LET daysUntilNextMonth == daysUntilFirstDayOfNextMonth(cur) IN
    IF IsThrow(daysUntilNextMonth) THEN [done |-> TRUE, ret |-> daysUntilNextMonth]
    ELSE IF toAdd <= daysUntilNextMonth.val
    THEN [done |-> TRUE, ret |-> Datum(Num(cur.year), Num(cur.month), Num(cur.day + toAdd))]
    ELSE LET next == firstDayOfNextMonth(cur) IN
         IF IsThrow(next) THEN [done |-> TRUE, ret |-> next]
         ELSE [done |-> FALSE, current |-> next.val,
               daysToAdd |-> toAdd - daysUntilNextMonth.val]

addDaysIteration(cur, toAdd) ==
    LET daysUntilNextMonth == daysUntilFirstDayOfNextMonth(cur) IN
    IF IsThrow(daysUntilNextMonth) THEN [done |-> TRUE, ret |-> daysUntilNextMonth]
    ELSE IF toAdd < daysUntilNextMonth.val
    THEN [done |-> TRUE, ret |-> Datum(Num(cur.year), Num(cur.month), Num(cur.day + toAdd))]
    ELSE LET next == firstDayOfNextMonth(cur) IN
         IF IsThrow(next) THEN [done |-> TRUE, ret |-> next]
         ELSE [done |-> FALSE, current |-> next.val,
               daysToAdd |-> toAdd - daysUntilNextMonth.val]

lastDayOfPreviousMonthFebruary28(cur) ==
    IF cur.month = 1 THEN Datum(Num(cur.year - 1), Num(12), Num(31))
    ELSE Datum(Num(cur.year), Num(cur.month - 1),
               Num(<<31, 28, 31, 30, 31, 30, 31, 31, 30, 31, 30, 31>>[cur.month - 1]))

\* "move to last day of previous month"
lastDayOfPreviousMonth(cur) ==
    IF cur.month = 1
    THEN LET lastDayInPreviousMonth == getDaysInMonth(Num(cur.year - 1), Num(12)) IN
         IF IsThrow(lastDayInPreviousMonth) THEN lastDayInPreviousMonth
         ELSE Datum(Num(cur.year - 1), Num(12), Num(lastDayInPreviousMonth.val))
    ELSE LET lastDayInPreviousMonth == getDaysInMonth(Num(cur.year), Num(cur.month - 1)) IN
         IF IsThrow(lastDayInPreviousMonth) THEN lastDayInPreviousMonth
         ELSE Datum(Num(cur.year), Num(cur.month - 1), Num(lastDayInPreviousMonth.val))

\* a pass that moves to the previous month and keeps the counter as it was
subtractDaysIterationCounterKept(cur, toSubtract) ==
    LET daysSincePreviousMonth == cur.day IN
    IF toSubtract < daysSincePreviousMonth
    THEN [done |-> TRUE,
          ret |-> Datum(Num(cur.year), Num(cur.month), Num(cur.day - toSubtract))]
    ELSE LET prev == lastDayOfPreviousMonth(cur) IN
         IF IsThrow(prev) THEN [done |-> TRUE, ret |-> prev]
         ELSE [done |-> FALSE, current |-> prev.val, daysToSubtract |-> toSubtract]

subtractDaysIteration(cur, toSubtract) ==
    LET daysSincePreviousMonth == cur.day IN
    IF toSubtract < daysSincePreviousMonth
    THEN [done |-> TRUE,
          ret |-> Datum(Num(cur.year), Num(cur.month), Num(cur.day - toSubtract))]
    ELSE LET prev == lastDayOfPreviousMonth(cur) IN
         IF IsThrow(prev) THEN [done |-> TRUE, ret |-> prev]
         ELSE [done |-> FALSE, current |-> prev.val,
               daysToSubtract |-> toSubtract - daysSincePreviousMonth]

Abs(x) == IF x < 0 THEN -x ELSE x

deltaDaysIterationNoAbs(cur, unt, acc) ==
    IF cur.year = unt.year /\ cur.month = unt.month
    THEN [done |-> TRUE, ret |-> Return(acc + (cur.day - unt.day))]
    ELSE LET stride == daysUntilFirstDayOfNextMonth(cur)
             next == firstDayOfNextMonth(cur)
         IN  IF IsThrow(stride) THEN [done |-> TRUE, ret |-> stride]
             ELSE IF IsThrow(next) THEN [done |-> TRUE, ret |-> next]
             ELSE [done |-> FALSE, current |-> next.val, deltaDays |-> acc + stride.val]

deltaDaysIterationWholeMonthStride(cur, unt, acc) ==
    IF cur.year = unt.year /\ cur.month = unt.month
    THEN [done |-> TRUE, ret |-> Return(acc + Abs(cur.day - unt.day))]
    ELSE LET stride == getDaysInMonth(Num(cur.year), Num(cur.month))
             next == firstDayOfNextMonth(cur)
         IN  IF IsThrow(stride) THEN [done |-> TRUE, ret |-> stride]
             ELSE IF IsThrow(next) THEN [done |-> TRUE, ret |-> next]
             ELSE [done |-> FALSE, current |-> next.val, deltaDays |-> acc + stride.val]

deltaDaysIteration(cur, unt, acc) ==
    IF cur.year = unt.year /\ cur.month = unt.month
    THEN [done |-> TRUE, ret |-> Return(acc + Abs(cur.day - unt.day))]
    ELSE LET stride == daysUntilFirstDayOfNextMonth(cur)
             next == firstDayOfNextMonth(cur)
         IN  IF IsThrow(stride) THEN [done |-> TRUE, ret |-> stride]
             ELSE IF IsThrow(next) THEN [done |-> TRUE, ret |-> next]
             ELSE [done |-> FALSE, current |-> next.val, deltaDays |-> acc + stride.val]

\* The methods as functions: the entry checks, then the loop run to its end.
RECURSIVE addDaysLoop(_, _)
addDaysLoop(cur, toAdd) ==
    LET s == addDaysIteration(cur, toAdd) IN
    IF s.done THEN s.ret ELSE addDaysLoop(s.current, s.daysToAdd)

addDaysEntry(days) ==
    IF ~days.int THEN Throw("TypeError")
    ELSE IF 0 > days.v THEN Throw("RangeError")
    ELSE Return(Undefined)

addDays(this, days) ==
    LET e == addDaysEntry(days) IN
    IF IsThrow(e) THEN e ELSE addDaysLoop(this, days.v)

RECURSIVE subtractDaysLoop(_, _)
subtractDaysLoop(cur, toSubtract) ==
    LET s == subtractDaysIteration(cur, toSubtract) IN
    IF s.done THEN s.ret ELSE subtractDaysLoop(s.current, s.daysToSubtract)

\* the entry of subtractDays without its test for a negative `days`
subtractDaysEntryNoSignCheck(days) ==
    IF ~days.int THEN Throw("TypeError")
    ELSE Return(Undefined)

subtractDaysEntry(days) ==
    IF ~days.int THEN Throw("TypeError")
    ELSE IF 0 > days.v THEN Throw("RangeError")
    ELSE Return(Undefined)

subtractDays(this, days) ==
    LET e == subtractDaysEntry(days) IN
    IF IsThrow(e) THEN e ELSE subtractDaysLoop(this, days.v)

RECURSIVE deltaDaysLoop(_, _, _)
deltaDaysLoop(cur, unt, acc) ==
    LET s == deltaDaysIteration(cur, unt, acc) IN
    IF s.done THEN s.ret ELSE deltaDaysLoop(s.current, unt, s.deltaDays)

\* deltaDays taking `this` for `current` and `other` for `until` unordered
deltaDaysEntryUnordered(this, other) ==
    IF isEqual(this, other) THEN [done |-> TRUE, ret |-> Return(0)]
    ELSE [done |-> FALSE, until |-> other, current |-> this]

\* deltaDays up to its loop: the early return, or `until` and `current`
deltaDaysEntry(this, other) ==
    IF isEqual(this, other) THEN [done |-> TRUE, ret |-> Return(0)]
    ELSE LET unt == IF isAfter(this, other) THEN this ELSE other
             cur == IF isBefore(this, other) THEN this ELSE other
         IN  IF isEqual(unt, cur) THEN [done |-> TRUE, ret |-> Throw("Error")]
             ELSE [done |-> FALSE, until |-> unt, current |-> cur]

deltaDays(this, other) ==
    LET e == deltaDaysEntry(this, other) IN
    IF e.done THEN e.ret ELSE deltaDaysLoop(e.current, e.until, 0)

---------------------------------------------------------------------------
(* Weekday derivation *)

Monday == 0
Tuesday == 1
Wednesday == 2
Thursday == 3
Friday == 4
Saturday == 5
Sunday == 6

referenceMonday == Datum(Num(2019), Num(8), Num(26)).val

weekdayFromDeltaForwardTableOnly(this, delta) ==
    LET weekdayIndex == delta % 7 IN
    CASE weekdayIndex = 0 -> Return(Monday)
      [] weekdayIndex = 1 -> Return(Tuesday)
      [] weekdayIndex = 2 -> Return(Wednesday)
      [] weekdayIndex = 3 -> Return(Thursday)
      [] weekdayIndex = 4 -> Return(Friday)
      [] weekdayIndex = 5 -> Return(Saturday)
      [] weekdayIndex = 6 -> Return(Sunday)
      [] OTHER -> Throw("Error")

\* weekday() from the deltaDays result on: the remainder and the two switches
weekdayFromDelta(this, delta) ==
    LET weekdayIndex == delta % 7 IN
    IF isBefore(this, referenceMonday)
    THEN CASE weekdayIndex = 6 -> Return(Tuesday)
           [] weekdayIndex = 5 -> Return(Wednesday)
           [] weekdayIndex = 4 -> Return(Thursday)
           [] weekdayIndex = 3 -> Return(Friday)
           [] weekdayIndex = 2 -> Return(Saturday)
           [] weekdayIndex = 1 -> Return(Sunday)
           [] weekdayIndex = 0 -> Return(Monday)
           [] OTHER -> Throw("Error")
    ELSE CASE weekdayIndex = 0 -> Return(Monday)
           [] weekdayIndex = 1 -> Return(Tuesday)
           [] weekdayIndex = 2 -> Return(Wednesday)
           [] weekdayIndex = 3 -> Return(Thursday)
           [] weekdayIndex = 4 -> Return(Friday)
           [] weekdayIndex = 5 -> Return(Saturday)
           [] weekdayIndex = 6 -> Return(Sunday)
           [] OTHER -> Throw("Error")

weekday(this) ==
    LET delta == deltaDays(this, referenceMonday) IN
    IF IsThrow(delta) THEN delta ELSE weekdayFromDelta(this, delta.val)

---------------------------------------------------------------------------
(* The caller's inputs *)

\* the largest `days` the caller passes to addDays and subtractDays
MaxDays == 40
\* deltaDays is called on two dates at most this many years apart
MaxYearGap == 1

SampleYears == {0, 1900, 2018, 2019, 2020, 9999}

RawYears == {Num(y) : y \in SampleYears \cup {-1, 10000}} \cup {NonInteger}
RawMonths == {Num(m) : m \in 0..13} \cup {NonInteger}
RawDays == {Num(d) : d \in 0..32} \cup {NonInteger}

\* every Datum the constructor yields for a sample year
Dates ==
    {r.val : r \in {x \in {Datum(Num(y), Num(m), Num(d)) :
                             y \in SampleYears, m \in 1..12, d \in 1..31} : ~IsThrow(x)}}

\* dates of the test suite that lie far from the weekday reference date
FarDates ==
    {r.val : r \in {Datum(Num(1373), Num(10), Num(11)), Datum(Num(1988), Num(9), Num(11)),
                    Datum(Num(1997), Num(12), Num(20))}}

\* the `other` dates of deltaDays: the turning points of every sample year
Anchors ==
    {d \in Dates : <<d.month, d.day>> \in {<<1, 1>>, <<2, 28>>, <<3, 1>>, <<8, 26>>, <<12, 31>>}}

DaysArgs == {Num(n) : n \in -1..MaxDays} \cup {NonInteger}

YearStrs ==
    {<<"0", "0", "0", "0">>, <<"0", "0", "0", "5">>, <<"0", "6", "0", "0">>,
     <<"1", "9", "0", "0">>, <<"2", "0", "1", "9">>, <<"2", "0", "2", "0">>,
     <<"9", "9", "9", "9">>}
MonthStrs == {<<a, b>> : a \in {"0", "1"}, b \in {DigitChars[i] : i \in 1..10}}
DayStrs == {<<a, b>> : a \in {"0", "1", "2", "3"}, b \in {DigitChars[i] : i \in 1..10}}
WellFormedStrs == {y \o <<"-">> \o m \o <<"-">> \o d : y \in YearStrs, m \in MonthStrs, d \in DayStrs}
MalformedStrs ==
    {<<>>,
     <<"2", "0", "1", "9", "-", "0", "8", "-", "2">>,
     <<"2", "0", "1", "9", "-", "8", "-", "2", "6">>,
     <<"2", "0", "1", "9", "-", "0", "8", "-", "2", "6", "0">>,
     <<"2", "0", "1", "9", "-", "0", "8", "-", "2", "6", " ">>,
     <<"2", "0", "1", "9", "/", "0", "8", "/", "2", "6">>,
     <<"2", "0", "1", "9", "0", "8", "-", "2", "6", "-">>,
     <<"2", "0", "1", "9", "-", "0", "8", "-", "2", "x">>,
     <<"2", "0", "1", "9", "-", "0", "8", "-", " ", "6">>,
     <<"x", "0", "1", "9", "-", "0", "8", "-", "2", "6">>,
     <<"+", "2", "0", "1", "9", "-", "8", "-", "2", "6">>,
     <<"-", "0", "1", "9", "-", "0", "8", "-", "2", "6">>,
     <<"2", "0", "1", "9", "-", "-", "8", "-", "2", "6">>,
     <<"2", "0", "1", "9", "-", "0", "8", "T", "2", "6">>}
Strs == WellFormedStrs \cup MalformedStrs

HostDates ==
    {[valid |-> TRUE, year |-> y, month |-> m, date |-> d] :
        y \in {-1, 0, 2017, 2020, 9999, 10000}, m \in 0..11, d \in 1..28}
    \cup {[valid |-> TRUE, year |-> 2020, month |-> 1, date |-> 29],
          [valid |-> TRUE, year |-> 9999, month |-> 11, date |-> 31],
          [valid |-> TRUE, year |-> 0, month |-> 0, date |-> 31],
          [valid |-> FALSE, year |-> 0, month |-> 0, date |-> 0]}

Tuples ==
    {<<y, m, d>> : y \in RawYears, m \in {Num(0), Num(2), Num(12), Num(13), NonInteger},
                   d \in {Num(0), Num(1), Num(28), Num(29), Num(30), Num(31), Num(32), NonInteger}}

\* the dates compared with each other: the first, second and last month of
\* every sample year, early and late in the month
CompareDates == {d \in Dates : d.month \in {1, 2, 12} /\ d.day \in {1, 2, 28}}

\* the longest array handed to min, max and sort
MaxSeqLen == 3

\* dates of the test suite's array: two in one month, one in the next month,
\* one centuries earlier and one centuries later
SeqDates ==
    {r.val : r \in {Datum(Num(2019), Num(8), Num(29)), Datum(Num(2019), Num(8), Num(30)),
                    Datum(Num(2019), Num(9), Num(1)), Datum(Num(1373), Num(10), Num(11)),
                    Datum(Num(5159), Num(4), Num(22))}}

DateSeqs == UNION {[1..n -> SeqDates] : n \in 0..MaxSeqLen}

---------------------------------------------------------------------------
(* The state machine *)

Init ==
    /\ pc = "idle"
    /\ op = "none"
    /\ self = <<>>
    /\ arg = <<>>
    /\ current = <<>>
    /\ until = <<>>
    /\ daysToAdd = 0
    /\ daysToSubtract = 0
    /\ deltaAcc = 0
    /\ ret = <<>>

NoLocals ==
    /\ current' = <<>>
    /\ until' = <<>>
    /\ daysToAdd' = 0
    /\ daysToSubtract' = 0
    /\ deltaAcc' = 0

\* a call that runs no loop: it is entered and has returned (or thrown)
Straight(method, this, a, result) ==
    /\ pc' = "done"
    /\ op' = method
    /\ self' = this
    /\ arg' = a
    /\ ret' = <<result>>
    /\ NoLocals

\* a loop's pass that ends the call
LoopReturns(result) ==
    /\ pc' = "done"
    /\ ret' = <<result>>
    /\ NoLocals
    /\ UNCHANGED <<op, self, arg>>

CallConstructor ==
    /\ pc = "idle"
    /\ \E year \in RawYears, month \in RawMonths, day \in RawDays :
          Straight("constructor", <<>>, [year |-> year, month |-> month, day |-> day],
                   Datum(year, month, day))

CallFromString ==
    /\ pc = "idle"
    /\ \E str \in Strs : Straight("fromString", <<>>, [str |-> str], fromString(str))

CallFromDate ==
    /\ pc = "idle"
    /\ \E date \in HostDates : Straight("fromDate", <<>>, [date |-> date], fromDate(date))

CallFromTuple ==
    /\ pc = "idle"
    /\ \E tuple \in Tuples :
          Straight("fromTuple", <<>>, [tuple |-> tuple], fromTuple(tuple))

CallToString ==
    /\ pc = "idle"
    /\ \E this \in Dates : Straight("toString", <<this>>, <<>>, Return(toString(this)))

CallIsLeapYear ==
    /\ pc = "idle"
    /\ \E year \in {Num(y) : y \in -1..10000} \cup {NonInteger} :
          Straight("isLeapYear", <<>>, [year |-> year], isLeapYear(year))

\* every year of the supported range with every month, and the raw inputs
GetDaysInMonthArgs ==
    ({Num(y) : y \in 0..9999} \X {Num(m) : m \in 1..12}) \cup (RawYears \X RawMonths)

CallGetDaysInMonth ==
    /\ pc = "idle"
    /\ \E ym \in GetDaysInMonthArgs :
          Straight("getDaysInMonth", <<>>, [year |-> ym[1], month |-> ym[2]],
                   getDaysInMonth(ym[1], ym[2]))

CallGetDaysInYear ==
    /\ pc = "idle"
    /\ \E year \in {Num(y) : y \in -1..10000} \cup {NonInteger} :
          Straight("getDaysInYear", <<>>, [year |-> year], getDaysInYear(year))

\* addDays called on one of `receivers`
AddDaysCalls(receivers) ==
    /\ pc = "idle"
    /\ \E this \in receivers, days \in DaysArgs :
          LET e == addDaysEntry(days) IN
          IF IsThrow(e) THEN Straight("addDays", <<this>>, [days |-> days], e)
          ELSE /\ pc' = "addDays"
               /\ op' = "addDays"
               /\ self' = <<this>>
               /\ arg' = [days |-> days]
               /\ current' = <<this>>
               /\ daysToAdd' = days.v
               /\ UNCHANGED <<until, daysToSubtract, deltaAcc, ret>>

CallAddDays == AddDaysCalls(Dates)

\* a loop pass that advances `current` in place: `current` starts out as
\* `this`, so the receiver moves with it
AddDaysStepInPlace ==
    /\ pc = "addDays"
    /\ LET s == addDaysIteration(current[1], daysToAdd) IN
       IF s.done THEN LoopReturns(s.ret)
       ELSE /\ current' = <<s.current>>
            /\ self' = <<s.current>>
            /\ daysToAdd' = s.daysToAdd
            /\ UNCHANGED <<pc, op, arg, until, daysToSubtract, deltaAcc, ret>>

AddDaysStep ==
    /\ pc = "addDays"
    /\ LET s == addDaysIteration(current[1], daysToAdd) IN
       IF s.done THEN LoopReturns(s.ret)
       ELSE /\ current' = <<s.current>>
            /\ daysToAdd' = s.daysToAdd
            /\ UNCHANGED <<pc, op, self, arg, until, daysToSubtract, deltaAcc, ret>>

\* subtractDays called on one of `receivers`
SubtractDaysCalls(receivers) ==
    /\ pc = "idle"
    /\ \E this \in receivers, days \in DaysArgs :
          LET e == subtractDaysEntry(days) IN
          IF IsThrow(e) THEN Straight("subtractDays", <<this>>, [days |-> days], e)
          ELSE /\ pc' = "subtractDays"
               /\ op' = "subtractDays"
               /\ self' = <<this>>
               /\ arg' = [days |-> days]
               /\ current' = <<this>>
               /\ daysToSubtract' = days.v
               /\ UNCHANGED <<until, daysToAdd, deltaAcc, ret>>

CallSubtractDays == SubtractDaysCalls(Dates)

SubtractDaysStep ==
    /\ pc = "subtractDays"
    /\ LET s == subtractDaysIteration(current[1], daysToSubtract) IN
       IF s.done THEN LoopReturns(s.ret)
       ELSE /\ current' = <<s.current>>
            /\ daysToSubtract' = s.daysToSubtract
            /\ UNCHANGED <<pc, op, self, arg, until, daysToAdd, deltaAcc, ret>>

\* what the method `method` makes of the result of its deltaDays loop
AfterDelta(method, this, result) ==
    IF method = "weekday" /\ ~IsThrow(result) THEN weekdayFromDelta(this, result.val)
    ELSE result

EnterDeltaDays(method, this, other, a) ==
    LET e == deltaDaysEntry(this, other) IN
    IF e.done THEN Straight(method, <<this>>, a, AfterDelta(method, this, e.ret))
    ELSE /\ pc' = "deltaDays"
         /\ op' = method
         /\ self' = <<this>>
         /\ arg' = a
         /\ current' = <<e.current>>
         /\ until' = <<e.until>>
         /\ deltaAcc' = 0
         /\ UNCHANGED <<daysToAdd, daysToSubtract, ret>>

Near(a, b) == a.year - b.year <= MaxYearGap /\ b.year - a.year <= MaxYearGap

\* the pairs deltaDays is called on: a date and an anchor, in either order
DeltaPairs ==
    {<<a, b>> \in (Dates \X Anchors) \cup (Anchors \X Dates) : Near(a, b)}

\* deltaDays called on one of `pairs`, <<this, other>>
DeltaDaysCalls(pairs) ==
    /\ pc = "idle"
    /\ \E pair \in pairs :
          EnterDeltaDays("deltaDays", pair[1], pair[2], [other |-> pair[2]])

CallDeltaDays == DeltaDaysCalls(DeltaPairs)

\* weekday called on one of `receivers`
WeekdayCalls(receivers) ==
    /\ pc = "idle"
    /\ \E this \in receivers : EnterDeltaDays("weekday", this, referenceMonday, <<>>)

CallWeekday == WeekdayCalls({d \in Dates : Near(d, referenceMonday)} \cup FarDates)

DeltaDaysStep ==
    /\ pc = "deltaDays"
    /\ LET s == deltaDaysIteration(current[1], until[1], deltaAcc) IN
       IF s.done THEN LoopReturns(AfterDelta(op, self[1], s.ret))
       ELSE /\ current' = <<s.current>>
            /\ deltaAcc' = s.deltaDays
            /\ UNCHANGED <<pc, op, self, arg, until, daysToAdd, daysToSubtract, ret>>

CallAssertIsYear ==
    /\ pc = "idle"
    /\ \E year \in {Num(y) : y \in -1..10000} \cup {NonInteger} :
          Straight("assertIsYear", <<>>, [year |-> year], assertIsYear(year))

CallAssertIsMonth ==
    /\ pc = "idle"
    /\ \E month \in RawMonths :
          Straight("assertIsMonth", <<>>, [month |-> month], assertIsMonth(month))

CallAssertIsDay ==
    /\ pc = "idle"
    /\ \E day \in RawDays : Straight("assertIsDay", <<>>, [day |-> day], assertIsDay(day))

CallToTuple ==
    /\ pc = "idle"
    /\ \E this \in Dates : Straight("toTuple", <<this>>, <<>>, Return(toTuple(this)))

CallDaysUntilFirstDayOfNextMonth ==
    /\ pc = "idle"
    /\ \E this \in Dates :
          Straight("daysUntilFirstDayOfNextMonth", <<this>>, <<>>,
                   daysUntilFirstDayOfNextMonth(this))

CallIsEqual ==
    /\ pc = "idle"
    /\ \E this \in CompareDates, other \in CompareDates :
          Straight("isEqual", <<this>>, [other |-> other], Return(isEqual(this, other)))

CallIsBefore ==
    /\ pc = "idle"
    /\ \E this \in CompareDates, other \in CompareDates :
          Straight("isBefore", <<this>>, [other |-> other], Return(isBefore(this, other)))

CallIsAfter ==
    /\ pc = "idle"
    /\ \E this \in CompareDates, other \in CompareDates :
          Straight("isAfter", <<this>>, [other |-> other], Return(isAfter(this, other)))

CallCompareAsc ==
    /\ pc = "idle"
    /\ \E first \in CompareDates, second \in CompareDates :
          Straight("compareAsc", <<>>, [first |-> first, second |-> second],
                   Return(compareAsc(first, second)))

CallCompareDesc ==
    /\ pc = "idle"
    /\ \E first \in CompareDates, second \in CompareDates :
          Straight("compareDesc", <<>>, [first |-> first, second |-> second],
                   Return(compareDesc(first, second)))

CallMin ==
    /\ pc = "idle"
    /\ \E datums \in DateSeqs : Straight("min", <<>>, [datums |-> datums], Return(min(datums)))

CallMax ==
    /\ pc = "idle"
    /\ \E datums \in DateSeqs : Straight("max", <<>>, [datums |-> datums], Return(max(datums)))

\* `dates.sort(Datum.compareAsc)` and `dates.sort(Datum.compareDesc)`
CallSort ==
    /\ pc = "idle"
    /\ \E dates \in DateSeqs, name \in {"compareAsc", "compareDesc"} :
          \E sorted \in sort(dates, name) :
              Straight("sort", <<>>, [dates |-> dates, compareFn |-> name], Return(sorted))

\* the caller takes the result; the next call starts afresh
ReturnToCaller ==
    /\ pc = "done"
    /\ pc' = "idle"
    /\ op' = "none"
    /\ self' = <<>>
    /\ arg' = <<>>
    /\ ret' = <<>>
    /\ NoLocals

Next ==
    \/ CallConstructor
    \/ CallFromString
    \/ CallFromDate
    \/ CallFromTuple
    \/ CallToString
    \/ CallIsLeapYear
    \/ CallGetDaysInMonth
    \/ CallGetDaysInYear
    \/ CallAddDays
    \/ AddDaysStep
    \/ CallSubtractDays
    \/ SubtractDaysStep
    \/ CallDeltaDays
    \/ CallWeekday
    \/ DeltaDaysStep
    \/ CallAssertIsYear
    \/ CallAssertIsMonth
    \/ CallAssertIsDay
    \/ CallToTuple
    \/ CallDaysUntilFirstDayOfNextMonth
    \/ CallIsEqual
    \/ CallIsBefore
    \/ CallIsAfter
    \/ CallCompareAsc
    \/ CallCompareDesc
    \/ CallMin
    \/ CallMax
    \/ CallSort
    \/ ReturnToCaller

Spec == Init /\ [][Next]_vars

\* The caller of the looping methods alone, calling them on the turning
\* points of the sample years (and weekday on the far dates as well).
NextArithmetic ==
    \/ AddDaysCalls(Anchors)
    \/ AddDaysStep
    \/ SubtractDaysCalls(Anchors)
    \/ SubtractDaysStep
    \/ DeltaDaysCalls({pair \in Anchors \X Anchors : Near(pair[1], pair[2])})
    \/ WeekdayCalls({d \in Anchors : Near(d, referenceMonday)} \cup FarDates)
    \/ DeltaDaysStep
    \/ ReturnToCaller

\* A call runs to completion: nothing preempts a running method, so a loop
\* that can take its next pass takes it.
FairSpec ==
    /\ Init
    /\ [][NextArithmetic]_vars
    /\ WF_vars(AddDaysStep)
    /\ WF_vars(SubtractDaysStep)
    /\ WF_vars(DeltaDaysStep)

---------------------------------------------------------------------------
(* The calendar the claims are stated against, written from the Gregorian   *)
(* rule and independent of the definitions above.                           *)

RefIsLeap(y) == (y % 4 = 0 /\ y % 100 # 0) \/ y % 400 = 0

RefDaysInMonth(y, m) ==
    CASE m \in {1, 3, 5, 7, 8, 10, 12} -> 31
      [] m \in {4, 6, 9, 11} -> 30
      [] m = 2 -> IF RefIsLeap(y) THEN 29 ELSE 28

ValidDatum(d) ==
    /\ d.year \in 0..9999
    /\ d.month \in 1..12
    /\ d.day \in 1..RefDaysInMonth(d.year, d.month)

Done(method) == pc = "done" /\ op = method
Returned(method) == Done(method) /\ ~IsThrow(ret[1])
Threw(method) == Done(method) /\ IsThrow(ret[1])

ReturnsDatum == {"constructor", "fromString", "fromDate", "fromTuple", "addDays", "subtractDays"}

\* every Datum the state holds: receiver, argument, loop locals and result
DatumsInState ==
    {self[i] : i \in DOMAIN self}
    \cup {current[i] : i \in DOMAIN current}
    \cup {until[i] : i \in DOMAIN until}
    \cup (IF op = "deltaDays" THEN {arg.other} ELSE {})
    \cup (IF pc = "done" /\ op \in ReturnsDatum /\ ~IsThrow(ret[1]) THEN {ret[1].val} ELSE {})

---------------------------------------------------------------------------
(* C1 *)

\* C1: every Datum that exists -- returned by the constructor, fromString,
\* fromTuple, fromDate, addDays or subtractDays, or held as `current` (or
\* `until`) inside the addDays, subtractDays and deltaDays loops -- has a year
\* in 0..9999, a month in 1..12 and a day in 1..daysInMonth(year, month).
C1_EveryDatumIsValid == \A d \in DatumsInState : ValidDatum(d)

\* an intermediate `current` of addDays that has rolled over into the next year
C1_Witness ==
    /\ pc = "addDays"
    /\ current[1].year = self[1].year + 1
    /\ current[1].month = 1
    /\ current[1].day = 1

---------------------------------------------------------------------------
(* C2 *)

ValidTriple(year, month, day) ==
    /\ year.int /\ year.v \in 0..9999
    /\ month.int /\ month.v \in 1..12
    /\ day.int /\ 1 <= day.v /\ day.v <= RefDaysInMonth(year.v, month.v)

\* C2: new Datum(y, m, d) returns a Datum with exactly the fields (y, m, d)
\* if and only if y is an integer in 0..9999, m an integer in 1..12 and d an
\* integer with 1 <= d <= daysInMonth(y, m); otherwise it throws and yields no
\* Datum: the day is never clamped or corrected.
C2_ConstructorExact ==
    Done("constructor") =>
        IF ValidTriple(arg.year, arg.month, arg.day)
        THEN ret[1] = Return([year |-> arg.year.v, month |-> arg.month.v, day |-> arg.day.v])
        ELSE IsThrow(ret[1])

\* new Datum(2019, 2, 30) has thrown
C2_Witness ==
    /\ Threw("constructor")
    /\ arg = [year |-> Num(2019), month |-> Num(2), day |-> Num(30)]

---------------------------------------------------------------------------
(* C3 *)

\* C3: toString and fromString are mutual inverses: fromString(toString(d))
\* has the fields of d for every valid Datum d (and toString(d) has 10
\* characters), and toString(fromString(s)) = s for every s fromString accepts.
C3_StringRoundTrip ==
    /\ Returned("toString") =>
          /\ Len(ret[1].val) = 10
          /\ fromString(ret[1].val) = Return(self[1])
    /\ Returned("fromString") => toString(ret[1].val) = arg.str

\* fromString has accepted a string whose year and month need zero padding
C3_Witness ==
    /\ Returned("fromString")
    /\ ret[1].val = [year |-> 5, month |-> 2, day |-> 9]

---------------------------------------------------------------------------
(* Stepping through the reference calendar one day at a time.  The records  *)
(* may leave the supported range: the day after 9999-12-31 has year 10000,  *)
(* the day before 0000-01-01 has year -1.                                   *)

RefNextDay(d) ==
    IF d.day < RefDaysInMonth(d.year, d.month)
    THEN [year |-> d.year, month |-> d.month, day |-> d.day + 1]
    ELSE IF d.month < 12 THEN [year |-> d.year, month |-> d.month + 1, day |-> 1]
    ELSE [year |-> d.year + 1, month |-> 1, day |-> 1]

RefPreviousDay(d) ==
    IF d.day > 1 THEN [year |-> d.year, month |-> d.month, day |-> d.day - 1]
    ELSE IF d.month > 1
    THEN [year |-> d.year, month |-> d.month - 1,
          day |-> RefDaysInMonth(d.year, d.month - 1)]
    ELSE [year |-> d.year - 1, month |-> 12, day |-> 31]

RECURSIVE RefNextDayTimes(_, _)
RefNextDayTimes(d, n) == IF n = 0 THEN d ELSE RefNextDayTimes(RefNextDay(d), n - 1)

RECURSIVE RefPreviousDayTimes(_, _)
RefPreviousDayTimes(d, n) ==
    IF n = 0 THEN d ELSE RefPreviousDayTimes(RefPreviousDay(d), n - 1)

\* the call's `days` argument is an integer >= 0
DaysArgOk == arg.days.int /\ arg.days.v >= 0

---------------------------------------------------------------------------
(* C4 *)

\* C4 as stated: for all valid d and every non-negative integer n,
\* d.addDays(n).subtractDays(n) is equal (field-wise) to d.
C4_AddThenSubtractAlways ==
    (Done("addDays") /\ DaysArgOk) =>
        /\ ~IsThrow(ret[1])
        /\ subtractDays(ret[1].val, arg.days) = Return(self[1])

\* C4, amended: for all valid d and every non-negative integer n such that
\* d plus n days is not after 9999-12-31, d.addDays(n) returns a Datum and
\* d.addDays(n).subtractDays(n) is equal (field-wise) to d.
C4_AddThenSubtract ==
    (Done("addDays") /\ DaysArgOk /\ RefNextDayTimes(self[1], arg.days.v).year <= 9999) =>
        /\ ~IsThrow(ret[1])
        /\ subtractDays(ret[1].val, arg.days) = Return(self[1])

\* addDays has crossed the leap day and a month end: 2020-02-20 plus 40 days
C4_Witness ==
    /\ Returned("addDays")
    /\ self[1] = [year |-> 2020, month |-> 2, day |-> 20]
    /\ arg.days = Num(40)
    /\ ret[1].val = [year |-> 2020, month |-> 3, day |-> 31]

---------------------------------------------------------------------------
(* C5 *)

\* C5: for all valid a and b with a.isBefore(b), a.addDays(a.deltaDays(b)) is
\* equal (field-wise) to b.
C5_AddDeltaReachesLater ==
    (Done("deltaDays") /\ isBefore(self[1], arg.other)) =>
        /\ ~IsThrow(ret[1])
        /\ addDays(self[1], Num(ret[1].val)) = Return(arg.other)

\* a deltaDays from a date before a leap day to one in the next year
C5_Witness ==
    /\ Returned("deltaDays")
    /\ self[1] = [year |-> 2019, month |-> 8, day |-> 26]
    /\ arg.other = [year |-> 2020, month |-> 3, day |-> 1]
    /\ ret[1].val = 188

---------------------------------------------------------------------------
(* C6 *)

\* C6: deltaDays is an unsigned, symmetric distance: for all valid a and b,
\* a.deltaDays(b) is a non-negative integer, it is 0 exactly when
\* a.isEqual(b), and it equals b.deltaDays(a).
C6_DeltaSymmetric ==
    Done("deltaDays") =>
        /\ ~IsThrow(ret[1])
        /\ ret[1].val \in Nat
        /\ (ret[1].val = 0) <=> isEqual(self[1], arg.other)
        /\ deltaDays(arg.other, self[1]) = ret[1]

\* a deltaDays whose receiver is the later date, within one month
C6_Witness ==
    /\ Returned("deltaDays")
    /\ self[1] = [year |-> 2020, month |-> 2, day |-> 29]
    /\ arg.other = [year |-> 2020, month |-> 2, day |-> 28]
    /\ ret[1].val = 1

---------------------------------------------------------------------------
(* C7 *)

\* C7: for every valid d and non-negative integer n whose result does not
\* pass 9999-12-31, d.addDays(n) equals the date reached by stepping n times
\* to the next calendar day; in particular d.addDays(0) equals d.
C7_AddDaysIsNextDayTimes ==
    (Done("addDays") /\ DaysArgOk /\ RefNextDayTimes(self[1], arg.days.v).year <= 9999) =>
        /\ ret[1] = Return(RefNextDayTimes(self[1], arg.days.v))
        /\ arg.days.v = 0 => ret[1] = Return(self[1])

\* Datum(2019, 12, 30).addDays(2) has rolled the year
C7_Witness ==
    /\ Returned("addDays")
    /\ self[1] = [year |-> 2019, month |-> 12, day |-> 30]
    /\ arg.days = Num(2)
    /\ ret[1].val = [year |-> 2020, month |-> 1, day |-> 1]

---------------------------------------------------------------------------
(* C8 *)

\* C8: for every valid d and non-negative integer n whose result does not
\* precede 0000-01-01, d.subtractDays(n) equals the date reached by stepping n
\* times to the previous calendar day; in particular d.subtractDays(0) equals
\* d, and Datum(2020, 3, 16).subtractDays(16) is 2020-02-29.
C8_SubtractDaysIsPreviousDayTimes ==
    /\ (Done("subtractDays") /\ DaysArgOk
          /\ RefPreviousDayTimes(self[1], arg.days.v).year >= 0) =>
          /\ ret[1] = Return(RefPreviousDayTimes(self[1], arg.days.v))
          /\ arg.days.v = 0 => ret[1] = Return(self[1])
    /\ (Done("subtractDays") /\ self[1] = [year |-> 2020, month |-> 3, day |-> 16]
          /\ arg.days = Num(16)) =>
          ret[1] = Return([year |-> 2020, month |-> 2, day |-> 29])

\* Datum(2020, 3, 16).subtractDays(16) has returned the leap day
C8_Witness ==
    /\ Returned("subtractDays")
    /\ self[1] = [year |-> 2020, month |-> 3, day |-> 16]
    /\ arg.days = Num(16)
    /\ ret[1].val = [year |-> 2020, month |-> 2, day |-> 29]

---------------------------------------------------------------------------
(* C9 *)

\* the number of leap years among the years 0 .. y-1
RefLeapYearsBefore(y) == (y + 3) \div 4 - (y + 99) \div 100 + (y + 399) \div 400

RefDaysBeforeMonth(y, m) ==
    <<0, 31, 59, 90, 120, 151, 181, 212, 243, 273, 304, 334>>[m]
        + (IF m > 2 /\ RefIsLeap(y) THEN 1 ELSE 0)

\* days elapsed since 0000-01-01
RefDayNumber(d) ==
    365 * d.year + RefLeapYearsBefore(d.year) + RefDaysBeforeMonth(d.year, d.month)
        + d.day - 1

\* the Gregorian weekday, Monday = 0, counted from Monday 2019-08-26
RefWeekday(d) ==
    (RefDayNumber(d) - RefDayNumber([year |-> 2019, month |-> 8, day |-> 26])) % 7

\* the walk from `d` to the reference date spans few enough months for the
\* weekday of the day after `d` to be computed alongside
CloseToReference(d) ==
    d.year - referenceMonday.year <= MaxYearGap /\ referenceMonday.year - d.year <= MaxYearGap

\* C9: weekday() returns the true Gregorian weekday on either side of the
\* reference date: Datum(2019, 8, 26).weekday() is Monday (0), for every valid
\* d before 9999-12-31 d.addDays(1).weekday() = (d.weekday() + 1) mod 7, and
\* weekday() always returns one of the seven weekdays: it never returns
\* undefined and never throws the invariant-failure error.
C9_WeekdayIsGregorian ==
    Done("weekday") =>
        /\ ~IsThrow(ret[1])
        /\ ret[1].val \in 0..6
        /\ ret[1].val = RefWeekday(self[1])
        /\ self[1] = [year |-> 2019, month |-> 8, day |-> 26] => ret[1].val = Monday
        /\ CloseToReference(self[1]) =>
              weekday(addDays(self[1], Num(1)).val) = Return((ret[1].val + 1) % 7)

\* weekday() of a date before the reference date has returned Sunday:
\* Datum(1988, 9, 11), a date of the test suite
C9_Witness ==
    /\ Returned("weekday")
    /\ self[1] = [year |-> 1988, month |-> 9, day |-> 11]
    /\ ret[1].val = Sunday

---------------------------------------------------------------------------
(* C10 *)

MonthLengths == <<31, 28, 31, 30, 31, 30, 31, 31, 30, 31, 30, 31>>

RECURSIVE SumOfMonths(_, _)
\* the sum of getDaysInMonth(y, m) over the months 1 .. m
SumOfMonths(y, m) ==
    IF m = 0 THEN 0 ELSE getDaysInMonth(Num(y), Num(m)).val + SumOfMonths(y, m - 1)

InYearRange(n) == n.int /\ n.v \in 0..9999
InMonthRange(n) == n.int /\ n.v \in 1..12

\* C10: for every year y in 0..9999 and month m in 1..12, isLeapYear(y) is
\* true exactly when y is divisible by 4 and not by 100, or divisible by 400;
\* getDaysInMonth(y, m) is the entry of [31,28,31,30,31,30,31,31,30,31,30,31]
\* for m, except that February is 29 when isLeapYear(y); and getDaysInYear(y)
\* is 366 if isLeapYear(y) else 365, the sum of getDaysInMonth(y, m) over the
\* twelve months.
C10_CalendarTables ==
    /\ (Done("isLeapYear") /\ InYearRange(arg.year)) =>
          ret[1] = Return((arg.year.v % 4 = 0 /\ arg.year.v % 100 # 0)
                             \/ arg.year.v % 400 = 0)
    /\ (Done("getDaysInMonth") /\ InYearRange(arg.year) /\ InMonthRange(arg.month)) =>
          ret[1] = Return(IF arg.month.v = 2 /\ isLeapYear(arg.year).val THEN 29
                          ELSE MonthLengths[arg.month.v])
    /\ (Done("getDaysInYear") /\ InYearRange(arg.year)) =>
          /\ ret[1] = Return(IF isLeapYear(arg.year).val THEN 366 ELSE 365)
          /\ ret[1].val = SumOfMonths(arg.year.v, 12)

\* isLeapYear(1900) has returned false: divisible by 100 and not by 400
C10_Witness ==
    /\ Returned("isLeapYear")
    /\ arg.year = Num(1900)
    /\ ret[1].val = FALSE

---------------------------------------------------------------------------
(* C11 *)

\* a date as one number: the decimal digits of year, month and day in a row
RefOrdinal(d) == d.year * 10000 + d.month * 100 + d.day
\* (a.year, a.month, a.day) is lexicographically smaller than b's triple
RefLexLess(a, b) == RefOrdinal(a) < RefOrdinal(b)

BoolToNat(b) == IF b THEN 1 ELSE 0

\* C11: for valid a and b, a.isEqual(b) answers whether the fields agree,
\* a.isBefore(b) answers whether (a.year, a.month, a.day) is lexicographically
\* smaller than b's triple and a.isAfter(b) whether it is larger; exactly one
\* of the three holds, and a.isBefore(b) holds iff b.isAfter(a) does.
C11_ComparisonTrichotomy ==
    (pc = "done" /\ op \in {"isEqual", "isBefore", "isAfter"}) =>
        LET a == self[1]
            b == arg.other
        IN  /\ ret[1] = Return(CASE op = "isEqual" -> a = b
                                 [] op = "isBefore" -> RefLexLess(a, b)
                                 [] op = "isAfter" -> RefLexLess(b, a))
            /\ BoolToNat(isEqual(a, b)) + BoolToNat(isBefore(a, b))
                   + BoolToNat(isAfter(a, b)) = 1
            /\ isBefore(a, b) <=> isAfter(b, a)
            /\ isBefore(a, b) <=> RefLexLess(a, b)

\* a is earlier in the month than b but in a later month of the same year:
\* isBefore answers false
C11_Witness ==
    /\ Done("isBefore")
    /\ self[1].year = arg.other.year
    /\ self[1].month > arg.other.month
    /\ self[1].day < arg.other.day
    /\ ret[1] = Return(FALSE)

---------------------------------------------------------------------------
(* C12 *)

\* how often the date d occurs in the array
Occurrences(array, d) == Cardinality({i \in DOMAIN array : array[i] = d})

\* C12: on valid Datums compareAsc answers only -1, 0 or 1: -1 when the first
\* date is the earlier one, 1 when it is the later one, and 0 exactly when the
\* fields are equal; compareAsc(a, b) = -compareAsc(b, a); compareAsc(a, b) <= 0
\* and compareAsc(b, c) <= 0 imply compareAsc(a, c) <= 0; compareDesc(a, b) =
\* -compareAsc(a, b).  An array sorted with compareAsc holds the same dates
\* earliest first, one sorted with compareDesc holds them latest first.
C12_CompareIsTotalOrder ==
    /\ Done("compareAsc") =>
          LET a == arg.first
              b == arg.second
              r == ret[1].val
          IN  /\ r \in {-1, 0, 1}
              /\ r = 0 <=> (a.year = b.year /\ a.month = b.month /\ a.day = b.day)
              /\ r = -1 <=> RefLexLess(a, b)
              /\ r = -compareAsc(b, a)
              /\ \A c \in CompareDates :
                     (r <= 0 /\ compareAsc(b, c) <= 0) => compareAsc(a, c) <= 0
              /\ compareDesc(a, b) = -r
    /\ Done("compareDesc") => ret[1].val = -compareAsc(arg.first, arg.second)
    /\ Done("sort") =>
          LET sorted == ret[1].val IN
          /\ Len(sorted) = Len(arg.dates)
          /\ \A d \in SeqDates : Occurrences(sorted, d) = Occurrences(arg.dates, d)
          /\ \A i \in DOMAIN sorted, j \in DOMAIN sorted :
                 i < j => IF arg.compareFn = "compareAsc" THEN ~RefLexLess(sorted[j], sorted[i])
                          ELSE ~RefLexLess(sorted[i], sorted[j])

\* an array of three different dates, neither earliest-first nor latest-first,
\* sorted with compareDesc
C12_Witness ==
    /\ Done("sort")
    /\ arg.compareFn = "compareDesc"
    /\ Len(arg.dates) = 3
    /\ RefLexLess(arg.dates[1], arg.dates[3])
    /\ RefLexLess(arg.dates[3], arg.dates[2])
    /\ ret[1].val = <<arg.dates[2], arg.dates[3], arg.dates[1]>>

---------------------------------------------------------------------------
(* C13 *)

Elements(array) == {array[i] : i \in DOMAIN array}

\* C13: min and max answer null for an empty sequence.  For a non-empty one
\* min answers an element of the sequence that no element is before, and max
\* an element that no element is after; min is field-equal to the first and
\* max to the last element of the sequence however compareAsc sorts it.
C13_MinMaxAreExtremal ==
    /\ Done("min") =>
          IF arg.datums = <<>> THEN ret[1] = Return(Null)
          ELSE /\ ret[1].val \in Elements(arg.datums)
               /\ \A d \in Elements(arg.datums) :
                      ~isBefore(d, ret[1].val) /\ ~RefLexLess(d, ret[1].val)
               /\ \A sorted \in sort(arg.datums, "compareAsc") :
                      isEqual(ret[1].val, sorted[1])
    /\ Done("max") =>
          IF arg.datums = <<>> THEN ret[1] = Return(Null)
          ELSE /\ ret[1].val \in Elements(arg.datums)
               /\ \A d \in Elements(arg.datums) :
                      ~isAfter(d, ret[1].val) /\ ~RefLexLess(ret[1].val, d)
               /\ \A sorted \in sort(arg.datums, "compareAsc") :
                      isEqual(ret[1].val, sorted[Len(sorted)])

\* min of three different dates whose earliest is neither first nor last
C13_Witness ==
    /\ Done("min")
    /\ Len(arg.datums) = 3
    /\ RefLexLess(arg.datums[2], arg.datums[1])
    /\ RefLexLess(arg.datums[2], arg.datums[3])
    /\ arg.datums[1] # arg.datums[3]
    /\ ret[1].val = arg.datums[2]

---------------------------------------------------------------------------
(* C14 *)

RefDigitValue(c) ==
    CASE c = "0" -> 0 [] c = "1" -> 1 [] c = "2" -> 2 [] c = "3" -> 3 [] c = "4" -> 4
      [] c = "5" -> 5 [] c = "6" -> 6 [] c = "7" -> 7 [] c = "8" -> 8 [] c = "9" -> 9

\* four digits, a dash, two digits, a dash, two digits
RefWellFormed(s) ==
    /\ Len(s) = 10
    /\ s[5] = "-" /\ s[8] = "-"
    /\ \A i \in {1, 2, 3, 4, 6, 7, 9, 10} :
           s[i] \in {"0", "1", "2", "3", "4", "5", "6", "7", "8", "9"}

RefYearOf(s) ==
    1000 * RefDigitValue(s[1]) + 100 * RefDigitValue(s[2])
        + 10 * RefDigitValue(s[3]) + RefDigitValue(s[4])
RefMonthOf(s) == 10 * RefDigitValue(s[6]) + RefDigitValue(s[7])
RefDayOf(s) == 10 * RefDigitValue(s[9]) + RefDigitValue(s[10])

---------------------------------------------------------------------------
(* C15 *)

\* the number is an integer of lo..hi
IntegerWithin(n, lo, hi) == n.int /\ lo <= n.v /\ n.v <= hi

\* what an assertion answers if it throws `kind` exactly for the values that
\* are not integers of lo..hi
AssertionAnswers(n, lo, hi, kind) ==
    IF IntegerWithin(n, lo, hi) THEN Return(Undefined) ELSE Throw(kind)

\* isLeapYear, getDaysInMonth and getDaysInYear refuse a year or a month
\* outside the range, or not an integer, with the error the constructor
\* throws for it, and answer a value otherwise
TablesValidateLikeConstructor ==
    /\ (Done("isLeapYear") \/ Done("getDaysInYear")) =>
          IF IntegerWithin(arg.year, 0, 9999) THEN ~IsThrow(ret[1])
          ELSE IsThrow(ret[1]) /\ ret[1] = Datum(arg.year, Num(1), Num(1))
    /\ Done("getDaysInMonth") =>
          IF IntegerWithin(arg.year, 0, 9999) /\ IntegerWithin(arg.month, 1, 12)
          THEN ~IsThrow(ret[1])
          ELSE IsThrow(ret[1]) /\ ret[1] = Datum(arg.year, arg.month, Num(1))

---------------------------------------------------------------------------
(* C16 *)

---------------------------------------------------------------------------
(* C17 *)

\* the Datums a running call was handed: its receiver and its arguments
HandedIn == <<self, arg>>

---------------------------------------------------------------------------
(* C18 *)

\* the months from year 0 up to the month of d
RefMonthIndex(d) == 12 * d.year + d.month

\* the date deltaDays measures the receiver against
DeltaOther == IF op = "weekday" THEN referenceMonday ELSE arg.other

\* C18: while a.deltaDays(b) with a # b walks, `until` is the later of a and
\* b, `current` starts at the earlier one and is never after `until`: at every
\* loop iteration (current.year, current.month) <= (until.year, until.month).
\* The consistency check after the early return for equal dates never fires:
\* deltaDays on valid Datums throws nothing.
C18_WalkStaysBeforeUntil ==
    /\ pc = "deltaDays" =>
          LET a == self[1]
              b == DeltaOther
          IN  /\ a # b
              /\ until[1] = (IF RefLexLess(a, b) THEN b ELSE a)
              /\ deltaAcc = 0 => current[1] = (IF RefLexLess(a, b) THEN a ELSE b)
              /\ RefMonthIndex(current[1]) <= RefMonthIndex(until[1])
              /\ ~RefLexLess(until[1], current[1])
    /\ Done("deltaDays") =>
          /\ ~IsThrow(ret[1])
          /\ ret[1].val = 0 <=> self[1] = arg.other

\* the receiver is the later date and the walk, begun at the argument, has
\* arrived in the receiver's month
C18_Witness ==
    /\ pc = "deltaDays"
    /\ op = "deltaDays"
    /\ until[1] = self[1]
    /\ current[1] # arg.other
    /\ RefMonthIndex(current[1]) = RefMonthIndex(until[1])
    /\ RefMonthIndex(arg.other) < RefMonthIndex(self[1]) - 1

---------------------------------------------------------------------------
(* C19 *)

InLoop == pc \in {"addDays", "subtractDays", "deltaDays"}

\* what a pass that stays in the loop does to the counter and to `current`
LoopPassProgress ==
    /\ (pc = "addDays" /\ pc' = "addDays") =>
          /\ 0 <= daysToAdd' /\ daysToAdd' <= daysToAdd - 1
          /\ RefMonthIndex(current'[1]) = RefMonthIndex(current[1]) + 1
    /\ (pc = "subtractDays" /\ pc' = "subtractDays") =>
          /\ 0 <= daysToSubtract' /\ daysToSubtract' <= daysToSubtract - 1
          /\ RefMonthIndex(current'[1]) = RefMonthIndex(current[1]) - 1
    /\ (pc = "deltaDays" /\ pc' = "deltaDays") =>
          /\ RefMonthIndex(current'[1]) = RefMonthIndex(current[1]) + 1
          /\ RefMonthIndex(current'[1]) <= RefMonthIndex(until[1])
          /\ deltaAcc' > deltaAcc

\* the months `current` has moved so far lie within the months the call spans
WithinMonthsSpanned ==
    /\ pc = "addDays" =>
          /\ RefMonthIndex(self[1]) <= RefMonthIndex(current[1])
          /\ RefMonthIndex(current[1])
                 <= RefMonthIndex(RefNextDayTimes(self[1], arg.days.v))
    /\ pc = "subtractDays" =>
          /\ RefMonthIndex(current[1]) <= RefMonthIndex(self[1])
          /\ RefMonthIndex(RefPreviousDayTimes(self[1], arg.days.v))
                 <= RefMonthIndex(current[1])
    /\ pc = "deltaDays" =>
          /\ RefMonthIndex(current[1]) <= RefMonthIndex(until[1])
          /\ \/ RefMonthIndex(self[1]) <= RefMonthIndex(current[1])
             \/ RefMonthIndex(DeltaOther) <= RefMonthIndex(current[1])

\* C19: addDays(n), subtractDays(n) and deltaDays(other) always terminate, by
\* returning a value or by throwing: a call that has entered its loop reaches
\* its end.  Each pass of addDays and subtractDays that stays in the loop
\* lowers the remaining day counter by at least 1 (never below 0) and moves
\* `current` exactly one month (forward, backward); each pass of deltaDays
\* moves `current` exactly one month towards `until` and not beyond it.  So
\* `current` stays within the months the call spans, which bounds the number
\* of passes.
C19_LoopsTerminate ==
    /\ InLoop ~> (pc = "done")
    /\ [][LoopPassProgress]_vars
    /\ []WithinMonthsSpanned

\* subtractDays has walked back from January into December of the year before
\* and still has days to subtract
C19_Witness ==
    /\ pc = "subtractDays"
    /\ self[1].month = 1
    /\ current[1] = [year |-> self[1].year - 1, month |-> 12, day |-> 31]
    /\ 0 < daysToSubtract /\ daysToSubtract < arg.days.v

---------------------------------------------------------------------------
(* C20 *)

\* the error assertIsYear raises for a year outside 0..9999
YearValidationError == {assertIsYear(Num(10000)), assertIsYear(Num(-1))}

\* C20: arithmetic never leaves the supported range silently.  d.addDays(n)
\* whose true result lies after 9999-12-31 throws the year validation error
\* (raised for year 10000) and d.subtractDays(n) whose true result lies before
\* 0000-01-01 throws it too (raised for year -1); neither returns a Datum.
\* Whatever the two methods return is the true result, with its year in
\* 0..9999: never a wrapped or clamped date.
C20_RangeNeverLeftSilently ==
    /\ (Done("addDays") /\ DaysArgOk) =>
          LET exact == RefNextDayTimes(self[1], arg.days.v) IN
          IF exact.year > 9999
          THEN IsThrow(ret[1]) /\ ret[1] = assertIsYear(Num(10000))
          ELSE ret[1] = Return(exact)
    /\ (Done("subtractDays") /\ DaysArgOk) =>
          LET exact == RefPreviousDayTimes(self[1], arg.days.v) IN
          IF exact.year < 0
          THEN IsThrow(ret[1]) /\ ret[1] = assertIsYear(Num(-1))
          ELSE ret[1] = Return(exact)
    /\ (Returned("addDays") \/ Returned("subtractDays")) => ret[1].val.year \in 0..9999
    /\ \A e \in YearValidationError : IsThrow(e)

\* 0000-01-31 minus 40 days lies before 0000-01-01: the call has thrown
C20_Witness ==
    /\ Done("subtractDays")
    /\ self[1] = [year |-> 0, month |-> 1, day |-> 31]
    /\ arg.days = Num(40)
    /\ IsThrow(ret[1])

====
